---------------------------- MODULE Spec2Model ----------------------------
(***************************************************************************)
(* State-machine model of the traffic simulation engine (src/engine.py):   *)
(* ApplyBarriers, PreProcessing, PopulationAgentsParallel with its routing *)
(* workers (ComputePathWorker), and the tick loop RunTicks with            *)
(* ValidateMovement, GetEdgeOccupancy, IsGreenLight and Agent.step.        *)
(*                                                                         *)
(* Python lists are 0-indexed; TLA+ sequences are 1-indexed.  The agent    *)
(* field currentStep keeps the code's 0-based value, so path[currentStep]  *)
(* in the code is path[currentStep + 1] here.  An optional dictionary      *)
(* attribute (length, weight, capacity) is a sequence of length 0 (absent) *)
(* or 1 (present).                                                         *)
(***************************************************************************)
EXTENDS Integers, Sequences, FiniteSets, TLC

(***************************************************************************)
(* Bounds of the model and program constants.                              *)
(***************************************************************************)
MaxAgents == 2
MaxBarriers == 1
MaxDuration == 6
MaxLightTick == 64
MaxEdgeLength == 120
MaxLongAgents == 1
MaxLongDuration == 18

BARRIER_WEIGHT == 999999
COST_CEILING == 500000
VEHICLE_SPACE == 7
DEFAULT_CAPACITY == 5
STUCK_LIMIT == 15
SNAPSHOT_PERIOD == 5
LIGHT_CYCLE == 30
LIGHT_HALF == 15
HEAVY_PCE == 3
CAR_PCE == 1
NoNode == 0

\* The durations RunTicks is called with.
Durations == {1, MaxDuration}

Some(x) == <<x>>
Absent == <<>>
Has(opt) == Len(opt) > 0
Get(opt) == opt[1]

(***************************************************************************)
(* The road networks handed to the engine.  Both are MultiDiGraphs over    *)
(* the same node ids (OSM ids are shared between the drive and the walk    *)
(* network).  An edge is (u, v, key) with its attribute dictionary.        *)
(***************************************************************************)
Nodes == {1, 2, 3, 4}

Edge(u, v, k, len) ==
    [u |-> u, v |-> v, k |-> k, length |-> len, weight |-> Absent, capacity |-> Absent]

\* Drive network as loaded: 1 -> 2 -> 3 <-> 4 with a second, longer
\* carriageway 2 -> 3 (key 1) and a bypass 2 -> 4.  Node 1 has no incoming
\* edge and degree 1; nodes 2, 3 and 4 have degree > 2.
DriveLoaded ==
    { Edge(1, 2, 0, Some(10)), Edge(2, 3, 0, Some(30)), Edge(2, 3, 1, Some(45)),
      Edge(3, 4, 0, Some(15)), Edge(4, 3, 0, Some(15)), Edge(2, 4, 0, Some(65)) }

\* Walk network as loaded: footways 1 <-> 2 <-> 3 and a path 3 -> 4 that
\* carries no length attribute.
WalkLoaded ==
    { Edge(1, 2, 0, Some(10)), Edge(2, 1, 0, Some(10)), Edge(2, 3, 0, Some(30)),
      Edge(3, 2, 0, Some(30)), Edge(3, 4, 0, Absent) }

\* The origin/destination pairs the population sampler draws from: routes of
\* one to three hops, a trip to the origin itself, an unreachable destination.
TripsD == { <<1, 4>>, <<1, 2>>, <<2, 4>>, <<3, 3>>, <<2, 1>> }
TripsW == { <<1, 3>>, <<2, 3>>, <<3, 4>>, <<2, 2>> }

\* The edges (u, v, key) a barrier point of the scenario can be nearest to.
BarrierSites == { <<1, 2, 0>>, <<2, 3, 0>>, <<4, 3, 0>> }

NodeY(n) == 10 * n
NodeX(n) == 100 + n

\* nx.set_edge_attributes(g, nx.get_edge_attributes(g, 'length'), 'weight')
SetWeightFromLength(g) ==
    { IF Has(e.length) THEN [e EXCEPT !.weight = e.length] ELSE e : e \in g }


(***************************************************************************)
(* networkx / osmnx graph queries used by the engine.                      *)
(***************************************************************************)
Parallel(g, u, v) == { e \in g : e.u = u /\ e.v = v }
HasEdge(g, u, v) == Parallel(g, u, v) # {}

\* graph.degree(n) of a MultiDiGraph: in-degree plus out-degree, every
\* parallel edge counted.
Degree(g, n) ==
    Cardinality({ e \in g : e.u = n }) + Cardinality({ e \in g : e.v = n })

\* graph.get_edge_data(u, v, 0): the attributes of the edge with key 0, or
\* None (Absent) when there is none.
GetEdgeData(g, u, v) ==
    LET es == { e \in Parallel(g, u, v) : e.k = 0 }
    IN  IF es = {} THEN Absent ELSE Some(CHOOSE e \in es : TRUE)

AttrOf(e, weightType) == IF weightType = "weight" THEN e.weight ELSE e.length

MinOf(S) == CHOOSE x \in S : \A y \in S : x <= y
MaxOf(a, b) == IF a >= b THEN a ELSE b

(***************************************************************************)
(* ApplyBarriers: the edge nearest the barrier gets weight 999999, and so  *)
(* does every parallel edge of the reverse direction.                      *)
(***************************************************************************)
\* A barrier that blocks every parallel edge from u to v (the key ignored).
BlockNearestEdgeAllKeys(g, u, v, key) ==
    { IF (e.u = u /\ e.v = v) \/ (e.u = v /\ e.v = u)
        THEN [e EXCEPT !.weight = Some(BARRIER_WEIGHT)]
        ELSE e : e \in g }

BlockNearestEdge(g, u, v, key) ==
    { IF (e.u = u /\ e.v = v /\ e.k = key) \/ (e.u = v /\ e.v = u)
        THEN [e EXCEPT !.weight = Some(BARRIER_WEIGHT)]
        ELSE e : e \in g }

(***************************************************************************)
(* PreProcessing: capacity = max(1, int(length / 7.0)), length defaulting  *)
(* to 1.0; the node list it returns is Nodes and every node has a positive *)
(* attraction weight (degree + 1, times 8 near the centre).                *)
(***************************************************************************)
\* A capacity without the floor of 1 (max(1, ...) left out).
EdgeCapacityNoFloor(e) ==
    (IF Has(e.length) THEN Get(e.length) ELSE 1) \div VEHICLE_SPACE

EdgeCapacity(e) ==
    MaxOf(1, (IF Has(e.length) THEN Get(e.length) ELSE 1) \div VEHICLE_SPACE)

PreProcessing(g) == { [e EXCEPT !.capacity = Some(EdgeCapacity(e))] : e \in g }

(***************************************************************************)
(* ox.shortest_path (Dijkstra over the weight attribute, a missing         *)
(* attribute counting 1, the cheapest of parallel edges taken) and         *)
(* nx.path_weight (the sum of the cheapest parallel edge per hop, a        *)
(* KeyError when an edge of the hop lacks the attribute).                  *)
(***************************************************************************)
IsPath(g, p) == \A k \in 1..(Len(p) - 1) : HasEdge(g, p[k], p[k + 1])

\* The simple paths of g that extend p to the node t.
RECURSIVE PathsFrom(_, _, _)
PathsFrom(g, p, t) ==
    IF p[Len(p)] = t THEN {p}
    ELSE UNION { PathsFrom(g, Append(p, n), t) :
                 n \in { m \in Nodes : /\ HasEdge(g, p[Len(p)], m)
                                       /\ \A k \in 1..Len(p) : p[k] # m } }

SimplePaths(g, o, t) == PathsFrom(g, <<o>>, t)

DijkstraHop(g, u, v, w) ==
    MinOf({ IF Has(AttrOf(e, w)) THEN Get(AttrOf(e, w)) ELSE 1 : e \in Parallel(g, u, v) })

RECURSIVE DijkstraCost(_, _, _)
DijkstraCost(g, p, w) ==
    IF Len(p) < 2 THEN 0
    ELSE DijkstraHop(g, p[1], p[2], w) + DijkstraCost(g, Tail(p), w)

\* The routes Dijkstra may return: the cheapest simple paths (which of
\* several equally cheap ones is library-defined).
ShortestPaths(g, o, t, w) ==
    LET ps == SimplePaths(g, o, t)
    IN  { p \in ps : \A q \in ps : DijkstraCost(g, p, w) <= DijkstraCost(g, q, w) }

PathWeightDefined(g, p, w) ==
    \A i \in 1..(Len(p) - 1) : \A e \in Parallel(g, p[i], p[i + 1]) : Has(AttrOf(e, w))

\* A path weight that counts hops (no weight attribute consulted).
PathWeightHops(g, p, w) == Len(p) - 1

RECURSIVE PathWeight(_, _, _)
PathWeight(g, p, w) ==
    IF Len(p) < 2 THEN 0
    ELSE MinOf({ Get(AttrOf(e, w)) : e \in Parallel(g, p[1], p[2]) })
         + PathWeight(g, Tail(p), w)

(***************************************************************************)
(* ComputePathWorker on one task, given the route the path search          *)
(* returned (Absent: no route).  The result is Absent (None) or the        *)
(* dictionary {id, path, coords, type}.                                    *)
(***************************************************************************)
PathCoords(p) == [i \in 1..Len(p) |-> <<NodeY(p[i]), NodeX(p[i])>>]

\* A worker that keeps a route whatever it costs (the ceiling test left out).
ComputePathWorkerNoCeiling(g, task, route) ==
    IF ~Has(route) THEN Absent
    ELSE LET path == Get(route)
         IN  IF ~PathWeightDefined(g, path, task.weightType) THEN Absent
             ELSE Some([id |-> task.id, path |-> path,
                        coords |-> PathCoords(path), type |-> task.type])

ComputePathWorker(g, task, route) ==
    IF ~Has(route) THEN Absent
    ELSE LET path == Get(route)
         IN  IF ~PathWeightDefined(g, path, task.weightType) THEN Absent
             ELSE IF PathWeight(g, path, task.weightType) < COST_CEILING
                  THEN Some([id |-> task.id, path |-> path,
                             coords |-> PathCoords(path), type |-> task.type])
                  ELSE Absent

\* What ox.shortest_path may hand back for a task.
Routes(g, task) ==
    LET ps == ShortestPaths(g, task.origin, task.target, task.weightType)
    IN  IF ps = {} THEN {Absent} ELSE { Some(p) : p \in ps }

(***************************************************************************)
(* Agent.__init__ and Agent.step.                                          *)
(***************************************************************************)
\* An agent that needs a path of three nodes to be active (> 2 for > 1).
NewAgentNeedsThreeNodes(agentId, path, pathCoords, typeStr) ==
    LET act == Len(path) > 2
    IN  [id |-> agentId, path |-> path, pathCoords |-> pathCoords, type |-> typeStr,
         active |-> act, currentStep |-> 0,
         currentNode |-> IF act THEN path[1] ELSE NoNode,
         stuckTicks |-> 0, ticksAlive |-> 0, isHeavy |-> FALSE]

\* An agent that is active from creation whatever its path.
NewAgentAlwaysActive(agentId, path, pathCoords, typeStr) ==
    [id |-> agentId, path |-> path, pathCoords |-> pathCoords, type |-> typeStr,
     active |-> TRUE, currentStep |-> 0, currentNode |-> path[1],
     stuckTicks |-> 0, ticksAlive |-> 0, isHeavy |-> FALSE]

NewAgent(agentId, path, pathCoords, typeStr) ==
    LET act == Len(path) > 1
    IN  [id |-> agentId, path |-> path, pathCoords |-> pathCoords, type |-> typeStr,
         active |-> act, currentStep |-> 0,
         currentNode |-> IF act THEN path[1] ELSE NoNode,
         stuckTicks |-> 0, ticksAlive |-> 0, isHeavy |-> FALSE]

\* A step that takes len(path), not len(path) - 1, for the last index.
AgentStepOffByOne(a) ==
    IF ~a.active THEN a
    ELSE LET s == a.currentStep + 1
         IN  [a EXCEPT !.currentStep = s,
                       !.currentNode = IF s < Len(a.path) THEN a.path[s + 1] ELSE NoNode,
                       !.active = (s # Len(a.path))]

\* A step that leaves the agent active on its last node (lines 44-45 left
\* out): the agent is deactivated by the step after.
AgentStepNoArrival(a) ==
    IF ~a.active THEN a
    ELSE IF a.currentStep < Len(a.path) - 1
         THEN LET s == a.currentStep + 1
                  node == a.path[s + 1]
              IN  [a EXCEPT !.currentStep = s,
                            !.currentNode = node,
                            !.stuckTicks = IF node # a.currentNode THEN 0 ELSE @]
         ELSE [a EXCEPT !.active = FALSE]

AgentStep(a) ==
    IF ~a.active THEN a
    ELSE IF a.currentStep < Len(a.path) - 1
         THEN LET s == a.currentStep + 1
                  node == a.path[s + 1]
              IN  [a EXCEPT !.currentStep = s,
                            !.currentNode = node,
                            !.stuckTicks = IF node # a.currentNode THEN 0 ELSE @,
                            !.active = (s # Len(a.path) - 1)]
         ELSE [a EXCEPT !.active = FALSE]

\* A build loop that stops at the first None result (a failed task aborting
\* the tasks after it).
BuildAgentsUntilFailure(results) ==
    LET firstNone == { k \in 1..Len(results) : ~Has(results[k]) }
        n == IF firstNone = {} THEN Len(results)
             ELSE (CHOOSE k \in firstNone : \A l \in firstNone : k <= l) - 1
    IN  [k \in 1..n |->
           [id |-> Get(results[k]).id, path |-> Get(results[k]).path,
            pathCoords |-> Get(results[k]).coords, type |-> Get(results[k]).type,
            active |-> Len(Get(results[k]).path) > 1, currentStep |-> 0,
            currentNode |-> IF Len(Get(results[k]).path) > 1
                              THEN Get(results[k]).path[1] ELSE NoNode,
            stuckTicks |-> 0, ticksAlive |-> 0,
            isHeavy |-> (Get(results[k]).type = "HeavyVehicle")]]

\* PopulationAgentsParallel, lines 133-140: one Agent per non-None result.
RECURSIVE BuildAgents(_)
BuildAgents(results) ==
    IF results = <<>> THEN <<>>
    ELSE LET r == Head(results)
         IN  (IF Has(r)
                THEN << [NewAgent(Get(r).id, Get(r).path, Get(r).coords, Get(r).type)
                           EXCEPT !.isHeavy = (Get(r).type = "HeavyVehicle")] >>
                ELSE <<>>)
             \o BuildAgents(Tail(results))

(***************************************************************************)
(* IsGreenLight, GetEdgeOccupancy, ValidateMovement.                       *)
(***************************************************************************)
\* A light whose odd phase turns green one tick late (>= 16 for >= 15): its
\* red lasts 16 ticks.
IsGreenLightLongRed(u, v, tick) ==
    IF (u + v) % 2 = 0 THEN tick % LIGHT_CYCLE < LIGHT_HALF
    ELSE tick % LIGHT_CYCLE >= LIGHT_HALF + 1

\* A light whose two phases overlap at tick 15 of the cycle (<= for <).
IsGreenLightOverlap(u, v, tick) ==
    IF (u + v) % 2 = 0 THEN tick % LIGHT_CYCLE <= LIGHT_HALF
    ELSE tick % LIGHT_CYCLE >= LIGHT_HALF

IsGreenLight(u, v, tick) ==
    IF (u + v) % 2 = 0 THEN tick % LIGHT_CYCLE < LIGHT_HALF
    ELSE tick % LIGHT_CYCLE >= LIGHT_HALF

\* The load an agent adds to the node pair (u, v).
AgentLoad(a, u, v) ==
    IF /\ a.active
       /\ a.currentStep < Len(a.path) - 1
       /\ a.path[a.currentStep + 1] = u
       /\ a.path[a.currentStep + 2] = v
    THEN (IF a.isHeavy THEN HEAVY_PCE ELSE CAR_PCE)
    ELSE 0

RECURSIVE SumLoad(_, _, _)
SumLoad(agents, u, v) ==
    IF agents = <<>> THEN 0
    ELSE AgentLoad(Head(agents), u, v) + SumLoad(Tail(agents), u, v)

\* occupancy.get((u, v), 0) of the dictionary GetEdgeOccupancy builds.
GetEdgeOccupancy(agents) == [uv \in Nodes \X Nodes |-> SumLoad(agents, uv[1], uv[2])]

IsVehicleKind(a) == a.type \in {"Vehicle", "HeavyVehicle"}

\* A capacity test that already fires at load = capacity (>= for >).
OverCapacityInclusive(a, g, occupancy) ==
    /\ IsVehicleKind(a)
    /\ a.currentStep < Len(a.path) - 1
    /\ LET u == a.path[a.currentStep + 1]
           v == a.path[a.currentStep + 2]
           edgeData == GetEdgeData(g, u, v)
       IN  /\ Has(edgeData)
           /\ occupancy[<<u, v>>] >=
                (IF Has(Get(edgeData).capacity) THEN Get(Get(edgeData).capacity)
                 ELSE DEFAULT_CAPACITY)

\* Whether ValidateMovement reaches its random.random() call.
OverCapacity(a, g, occupancy) ==
    /\ IsVehicleKind(a)
    /\ a.currentStep < Len(a.path) - 1
    /\ LET u == a.path[a.currentStep + 1]
           v == a.path[a.currentStep + 2]
           edgeData == GetEdgeData(g, u, v)
       IN  /\ Has(edgeData)
           /\ occupancy[<<u, v>>] >
                (IF Has(Get(edgeData).capacity) THEN Get(Get(edgeData).capacity)
                 ELSE DEFAULT_CAPACITY)

RedLight(a, g, tick) ==
    LET u == a.path[a.currentStep + 1]
        v == a.path[a.currentStep + 2]
    IN  Degree(g, u) > 2 /\ ~IsGreenLight(u, v, tick)

\* A check that puts pedestrians under the vehicle rules (the type test of
\* line 184 left out).
ValidateMovementNoExemption(a, g, occupancy, tick, draw) ==
    IF a.currentStep >= Len(a.path) - 1 THEN FALSE
    ELSE IF RedLight(a, g, tick) THEN FALSE
    ELSE IF OverCapacity([a EXCEPT !.type = "Vehicle"], g, occupancy) /\ draw THEN FALSE
    ELSE TRUE

\* draw: the outcome of random.random() < 0.7, read only when the upcoming
\* edge is over capacity.
ValidateMovement(a, g, occupancy, tick, draw) ==
    IF ~IsVehicleKind(a) THEN TRUE
    ELSE IF a.currentStep >= Len(a.path) - 1 THEN FALSE
    ELSE IF RedLight(a, g, tick) THEN FALSE
    ELSE IF OverCapacity(a, g, occupancy) /\ draw THEN FALSE
    ELSE TRUE

(***************************************************************************)
(* One visit of the tick loop's inner body (RunTicks, lines 151-178) to    *)
(* agent a in tick i: the agent afterwards and the record appended, if any.*)
(***************************************************************************)
\* A budget check that gives up at stuckTicks = 15 already (>= for >).
BudgetExceededInclusive(a, dur) == a.ticksAlive > dur \/ a.stuckTicks >= STUCK_LIMIT

\* A tick budget that is spent at ticksAlive = duration already (>= for >).
BudgetExceededAtDuration(a, dur) == a.ticksAlive >= dur \/ a.stuckTicks > STUCK_LIMIT

BudgetExceeded(a, dur) == a.ticksAlive > dur \/ a.stuckTicks > STUCK_LIMIT

\* A movement that gives every kind of agent the second step.
MoveDoubleForAll(a, canMove) ==
    IF canMove
    THEN LET a1 == AgentStep(a)
         IN  IF a1.active THEN AgentStep(a1) ELSE a1
    ELSE [a EXCEPT !.stuckTicks = @ + 1]

\* Lines 161-166: the movement of an agent that passed the budget check.
Move(a, canMove) ==
    IF canMove
    THEN LET a1 == AgentStep(a)
         IN  IF a.type = "Vehicle" /\ a1.active THEN AgentStep(a1) ELSE a1
    ELSE [a EXCEPT !.stuckTicks = @ + 1]

\* A visit that appends a record whether or not the agent is still active.
EmitsRecordAlways(a, tick) == TRUE

\* Line 168: whether the visit appends a record.
EmitsRecord(a, tick) == a.active

\* A record whose status is 'moving' whatever canMove was.
MakeRecordAlwaysMoving(a, tick, canMove) ==
    [tick |-> tick, agent_id |-> a.id,
     lat |-> a.pathCoords[a.currentStep + 1][1],
     lon |-> a.pathCoords[a.currentStep + 1][2],
     type |-> a.type,
     status |-> "moving"]

MakeRecord(a, tick, canMove) ==
    [tick |-> tick, agent_id |-> a.id,
     lat |-> a.pathCoords[a.currentStep + 1][1],
     lon |-> a.pathCoords[a.currentStep + 1][2],
     type |-> a.type,
     status |-> IF canMove THEN "moving" ELSE "congested"]

\* Lines 154-178: the visit of an agent that is active.
VisitActive(a, g, occupancy, tick, dur, draw) ==
    LET a0 == [a EXCEPT !.ticksAlive = @ + 1]
    IN  IF BudgetExceeded(a0, dur)
        THEN [agent |-> [a0 EXCEPT !.active = FALSE], record |-> Absent]
        ELSE LET canMove == ValidateMovement(a0, g, occupancy, tick, draw)
                 a1 == Move(a0, canMove)
             IN  [agent |-> a1,
                  record |-> IF EmitsRecord(a1, tick)
                             THEN Some(MakeRecord(a1, tick, canMove))
                             ELSE Absent]

\* A visit that does not skip an inactive agent (line 152 left out).
VisitNoSkip(a, g, occupancy, tick, dur, draw) ==
    VisitActive(a, g, occupancy, tick, dur, draw)

Visit(a, g, occupancy, tick, dur, draw) ==
    IF ~a.active THEN [agent |-> a, record |-> Absent]
    ELSE VisitActive(a, g, occupancy, tick, dur, draw)

\* The random.random() outcomes a visit can see.
Draws(a, g, occupancy, tick, dur) ==
    LET a0 == [a EXCEPT !.ticksAlive = @ + 1]
    IN  IF /\ a.active
           /\ ~BudgetExceeded(a0, dur)
           /\ IsVehicleKind(a0)
           /\ a0.currentStep < Len(a0.path) - 1
           /\ ~RedLight(a0, g, tick)
           /\ OverCapacity(a0, g, occupancy)
        THEN BOOLEAN ELSE {FALSE}

(***************************************************************************)
(* State.                                                                  *)
(***************************************************************************)
VARIABLES
    pc,             \* "barriers", "population", "ticks", "done"
    gDrive, gWalk,  \* the two networks
    barriersLeft,   \* barrier points ApplyBarriers has not reached yet
    nearest,        \* the edges ox.nearest_edges has returned
    vehicles, pedestrian,   \* the population requested
    duration,       \* the duration passed to RunTicks (0 before the call)
    tasksD, tasksW, \* routing tasks sampled so far
    resD, resW,     \* executor.map results, by task position
    doneD, doneW,   \* task positions whose worker has returned
    allAgents,      \* finalAgents, as passed to RunTicks
    i, cursor,      \* tick and position of the inner loop (0: loop head)
    edgeOccupancy, occDefined,   \* the snapshot and whether it is bound
    simulationData, \* the records appended so far
    tickStart,      \* history: the agents as they were at the head of each tick
    result,         \* what RunSimulation has returned (Absent before it returns)
    mirror,         \* a second call of RunTicks on a permutation of the agents
    probe           \* arguments and result of a direct call of IsGreenLight

vars == <<pc, gDrive, gWalk, barriersLeft, nearest, vehicles, pedestrian, duration,
          tasksD, tasksW, resD, resW, doneD, doneW, allAgents, i, cursor,
          edgeOccupancy, occDefined, simulationData, tickStart,
          result, mirror, probe>>

graphVars == <<gDrive, gWalk>>
paramVars == <<vehicles, pedestrian, duration>>
taskVars == <<tasksD, tasksW, resD, resW, doneD, doneW>>
tickVars == <<allAgents, i, cursor, edgeOccupancy, occDefined, simulationData, tickStart>>

EmptyOccupancy == [uv \in Nodes \X Nodes |-> 0]

Init ==
    /\ pc = "barriers"
    /\ gDrive = SetWeightFromLength(DriveLoaded)
    /\ gWalk = WalkLoaded
    /\ barriersLeft \in 0..MaxBarriers
    /\ nearest = {}
    /\ vehicles \in 0..MaxAgents
    /\ pedestrian \in 0..(MaxAgents - vehicles)
    /\ duration = 0
    /\ tasksD = <<>> /\ tasksW = <<>>
    /\ resD = <<>> /\ resW = <<>>
    /\ doneD = {} /\ doneW = {}
    /\ allAgents = <<>>
    /\ i = 0 /\ cursor = 0
    /\ edgeOccupancy = EmptyOccupancy /\ occDefined = FALSE
    /\ simulationData = <<>>
    /\ tickStart = <<>>
    /\ result = Absent
    /\ mirror = Absent
    /\ probe = <<>>

(***************************************************************************)
(* ApplyBarriers, one barrier per step.                                    *)
(***************************************************************************)
ApplyBarrier ==
    /\ pc = "barriers" /\ barriersLeft > 0
    /\ \E e \in BarrierSites :
         /\ gDrive' = BlockNearestEdge(gDrive, e[1], e[2], e[3])
         /\ nearest' = nearest \cup {e}
    /\ barriersLeft' = barriersLeft - 1
    /\ UNCHANGED <<probe, mirror, result, pc, gWalk, paramVars, taskVars, tickVars>>

\* ox.nearest_edges raised: the barrier is skipped (except: continue).
SkipBarrier ==
    /\ pc = "barriers" /\ barriersLeft > 0
    /\ barriersLeft' = barriersLeft - 1
    /\ UNCHANGED <<probe, mirror, result, pc, graphVars, nearest, paramVars, taskVars, tickVars>>

(***************************************************************************)
(* PopulationAgentsParallel.                                               *)
(***************************************************************************)
StartPopulation ==
    /\ pc = "barriers" /\ barriersLeft = 0
    /\ gDrive' = PreProcessing(gDrive)
    /\ gWalk' = PreProcessing(gWalk)
    /\ pc' = "population"
    /\ UNCHANGED <<probe, mirror, result, barriersLeft, nearest, paramVars, taskVars, tickVars>>

\* Every vehicle task named v_0 (the loop index dropped from the id).
VehicleIdFixed(n) == <<"v", 0>>

\* Pedestrian tasks named like vehicle tasks (f"v_{j}" for f"p_{j}").
PedestrianIdAsVehicle(n) == <<"v", n>>

\* The agent ids f"v_{i}" and f"p_{j}".
VehicleId(n) == <<"v", n>>
PedestrianId(n) == <<"p", n>>

Sampled == Len(tasksD) = vehicles /\ Len(tasksW) = pedestrian

SampleVehicle ==
    /\ pc = "population" /\ Len(tasksD) < vehicles
    /\ \E od \in TripsD, vType \in {"Vehicle", "HeavyVehicle"} :
         tasksD' = Append(tasksD, [id |-> VehicleId(Len(tasksD)),
                                   origin |-> od[1], target |-> od[2],
                                   weightType |-> "weight", type |-> vType])
    /\ resD' = Append(resD, Absent)
    /\ UNCHANGED <<probe, mirror, result, pc, graphVars, barriersLeft, nearest, paramVars, tasksW, resW,
                   doneD, doneW, tickVars>>

\* A pedestrian loop that runs once more than asked (range(pedestrian + 1)).
SamplePedestrianOneMore ==
    /\ pc = "population" /\ Len(tasksD) = vehicles /\ Len(tasksW) <= pedestrian
    /\ \E od \in TripsW :
         tasksW' = Append(tasksW, [id |-> PedestrianId(Len(tasksW)),
                                   origin |-> od[1], target |-> od[2],
                                   weightType |-> "length", type |-> "Pedestrian"])
    /\ resW' = Append(resW, Absent)
    /\ UNCHANGED <<probe, mirror, result, pc, graphVars, barriersLeft, nearest, paramVars, tasksD, resD,
                   doneD, doneW, tickVars>>

SamplePedestrian ==
    /\ pc = "population" /\ Len(tasksD) = vehicles /\ Len(tasksW) < pedestrian
    /\ \E od \in TripsW :
         tasksW' = Append(tasksW, [id |-> PedestrianId(Len(tasksW)),
                                   origin |-> od[1], target |-> od[2],
                                   weightType |-> "length", type |-> "Pedestrian"])
    /\ resW' = Append(resW, Absent)
    /\ UNCHANGED <<probe, mirror, result, pc, graphVars, barriersLeft, nearest, paramVars, tasksD, resD,
                   doneD, doneW, tickVars>>

\* A worker of the drive pool returns the result of task k.
RouteVehicle ==
    /\ pc = "population" /\ Sampled
    /\ \E k \in (1..Len(tasksD)) \ doneD :
         /\ \E route \in Routes(gDrive, tasksD[k]) :
              resD' = [resD EXCEPT ![k] = ComputePathWorker(gDrive, tasksD[k], route)]
         /\ doneD' = doneD \cup {k}
    /\ UNCHANGED <<probe, mirror, result, pc, graphVars, barriersLeft, nearest, paramVars, tasksD, tasksW,
                   resW, doneW, tickVars>>

\* The walk pool starts once the drive pool has been drained.
RoutePedestrian ==
    /\ pc = "population" /\ Sampled /\ doneD = 1..Len(tasksD)
    /\ \E k \in (1..Len(tasksW)) \ doneW :
         /\ \E route \in Routes(gWalk, tasksW[k]) :
              resW' = [resW EXCEPT ![k] = ComputePathWorker(gWalk, tasksW[k], route)]
         /\ doneW' = doneW \cup {k}
    /\ UNCHANGED <<probe, mirror, result, pc, graphVars, barriersLeft, nearest, paramVars, tasksD, tasksW,
                   resD, doneD, tickVars>>

FinishPopulation ==
    /\ pc = "population" /\ Sampled
    /\ doneD = 1..Len(tasksD) /\ doneW = 1..Len(tasksW)
    /\ allAgents' = BuildAgents(resD \o resW)
    /\ duration' \in Durations
    /\ pc' = "ticks"
    /\ UNCHANGED <<probe, mirror, result, graphVars, barriersLeft, nearest, vehicles, pedestrian, taskVars,
                   i, cursor, edgeOccupancy, occDefined, simulationData, tickStart>>

(***************************************************************************)
(* RunTicks.                                                               *)
(***************************************************************************)
\* A snapshot that is refreshed on every tick.
SnapshotEveryTick(tick, agents, old, defined) == GetEdgeOccupancy(agents)

\* Lines 146-150: the snapshot the tick works with, old being the one bound
\* so far (if defined).
Snapshot(tick, agents, old, defined) ==
    IF tick % SNAPSHOT_PERIOD = 0 THEN GetEdgeOccupancy(agents)
    ELSE IF defined THEN old ELSE EmptyOccupancy

\* The head of `for i in range(duration)` with the snapshot refresh.
BeginTick ==
    /\ pc = "ticks" /\ cursor = 0 /\ i < duration
    /\ edgeOccupancy' = Snapshot(i, allAgents, edgeOccupancy, occDefined)
    /\ occDefined' = TRUE
    /\ tickStart' = Append(tickStart, allAgents)
    /\ IF allAgents = <<>>
         THEN i' = i + 1 /\ cursor' = 0
         ELSE i' = i /\ cursor' = 1
    /\ UNCHANGED <<probe, mirror, result, pc, graphVars, barriersLeft, nearest, paramVars, taskVars,
                   allAgents, simulationData>>

VisitAgent ==
    /\ pc = "ticks" /\ cursor > 0
    /\ \E draw \in Draws(allAgents[cursor], gDrive, edgeOccupancy, i, duration) :
         LET out == Visit(allAgents[cursor], gDrive, edgeOccupancy, i, duration, draw)
         IN  /\ allAgents' = [allAgents EXCEPT ![cursor] = out.agent]
             /\ simulationData' = simulationData \o out.record
    /\ IF cursor = Len(allAgents)
         THEN i' = i + 1 /\ cursor' = 0
         ELSE i' = i /\ cursor' = cursor + 1
    /\ UNCHANGED <<probe, mirror, result, pc, graphVars, barriersLeft, nearest, paramVars, taskVars,
                   edgeOccupancy, occDefined, tickStart>>

\* RunSimulation, lines 254-261: one polyline per drive edge (no edge of the
\* scenario has a 'geometry'), from (x, y) of u to (x, y) of v.
Roads(g) ==
    { [edge |-> <<e.u, e.v, e.k>>,
       path |-> << <<NodeX(e.u), NodeY(e.u)>>, <<NodeX(e.v), NodeY(e.v)>> >>] : e \in g }

\* What a call of RunSimulation hands its caller: raised tells whether an
\* exception left the function, records and roads are the returned pair.
Returned(records, roads) == [raised |-> FALSE, records |-> records, roads |-> roads]

\* RunTicks returns and RunSimulation returns the records and the roads.
ReturnRecords ==
    /\ pc = "ticks" /\ cursor = 0 /\ i = duration
    /\ pc' = "done"
    /\ result' = Some(Returned(simulationData, Roads(gDrive)))
    /\ UNCHANGED <<probe, mirror, graphVars, barriersLeft, nearest, paramVars, taskVars,
                   tickVars>>

Next ==
    \/ ApplyBarrier
    \/ SkipBarrier
    \/ StartPopulation
    \/ SampleVehicle
    \/ SamplePedestrian
    \/ RouteVehicle
    \/ RoutePedestrian
    \/ FinishPopulation
    \/ BeginTick
    \/ VisitAgent
    \/ ReturnRecords

Spec == Init /\ [][Next]_vars

(***************************************************************************)
(* RunSimulation from its first line: the two networks are loaded (from    *)
(* the cache or the network) before anything else, and an exception        *)
(* anywhere in the body is caught by the handler of lines 262-264, which   *)
(* returns an empty DataFrame and an empty road list.                      *)
(***************************************************************************)
InitSim ==
    /\ pc = "load"
    /\ gDrive = {} /\ gWalk = {}
    /\ barriersLeft \in 0..MaxBarriers
    /\ nearest = {}
    /\ vehicles \in 0..MaxAgents
    /\ pedestrian \in 0..(MaxAgents - vehicles)
    /\ duration = 0
    /\ tasksD = <<>> /\ tasksW = <<>>
    /\ resD = <<>> /\ resW = <<>>
    /\ doneD = {} /\ doneW = {}
    /\ allAgents = <<>>
    /\ i = 0 /\ cursor = 0
    /\ edgeOccupancy = EmptyOccupancy /\ occDefined = FALSE
    /\ simulationData = <<>>
    /\ tickStart = <<>>
    /\ result = Absent
    /\ mirror = Absent
    /\ probe = <<>>

LoadGraphs ==
    /\ pc = "load"
    /\ gDrive' = SetWeightFromLength(DriveLoaded)
    /\ gWalk' = WalkLoaded
    /\ pc' = "barriers"
    /\ UNCHANGED <<probe, mirror, result, barriersLeft, nearest, paramVars, taskVars, tickVars>>

\* LoadGraphWithCache raises (the network fetch failed): the handler returns.
LoadFails ==
    /\ pc = "load"
    /\ pc' = "failed"
    /\ result' = Some(Returned(<<>>, {}))
    /\ UNCHANGED <<probe, mirror, graphVars, barriersLeft, nearest, paramVars, taskVars,
                   tickVars>>

NextSim ==
    \/ LoadGraphs
    \/ LoadFails
    \/ Next

SpecSim == InitSim /\ [][NextSim]_vars

\* The status the caller (interface/setup.py, show) reports for a call.
ShowStatus(r) ==
    IF r.raised THEN "Engine Error"
    ELSE IF r.records # <<>> THEN "Simulation Complete"
    ELSE "Simulation Failed"

(***************************************************************************)
(* RunTicks called twice on the same population, the second time with the  *)
(* agents in another order, both calls seeing the same outcome of          *)
(* random.random() for each agent and tick.  One step is one tick of both  *)
(* calls.                                                                  *)
(***************************************************************************)
\* An inner loop whose congestion test reads the load of the moment.
VisitAllLive(agents, k, g, occupancy, tick, dur, drawOf) ==
    LET RECURSIVE From(_, _)
        From(now, n) ==
          IF n > Len(now) THEN [agents |-> now, records |-> <<>>]
          ELSE LET out == Visit(now[n], g, GetEdgeOccupancy(now), tick, dur,
                                drawOf[now[n].id])
                   rest == From([now EXCEPT ![n] = out.agent], n + 1)
               IN  [agents |-> rest.agents, records |-> out.record \o rest.records]
    IN  From(agents, k)

\* Lines 151-178 from position k of the list on: the agents afterwards and
\* the records appended.
RECURSIVE VisitAll(_, _, _, _, _, _, _)
VisitAll(agents, k, g, occupancy, tick, dur, drawOf) ==
    IF k > Len(agents) THEN [agents |-> agents, records |-> <<>>]
    ELSE LET out == Visit(agents[k], g, occupancy, tick, dur, drawOf[agents[k].id])
             rest == VisitAll([agents EXCEPT ![k] = out.agent], k + 1, g, occupancy,
                              tick, dur, drawOf)
         IN  [agents |-> rest.agents, records |-> out.record \o rest.records]

\* Lines 145-178: one iteration of the tick loop.
RunTick(agents, g, old, defined, tick, dur, drawOf) ==
    LET occupancy == Snapshot(tick, agents, old, defined)
        out == VisitAll(agents, 1, g, occupancy, tick, dur, drawOf)
    IN  [agents |-> out.agents, records |-> out.records, occupancy |-> occupancy]

AgentOrders(n) ==
    { f \in [1..n -> 1..n] : \A a, b \in 1..n : a # b => f[a] # f[b] }

\* The results the routing pools can hand back for the task at position n
\* of tasksD or tasksW on the networks without barriers.
DriveResults(n) ==
    LET g == PreProcessing(SetWeightFromLength(DriveLoaded))
    IN  UNION { { ComputePathWorker(g, task, route) : route \in Routes(g, task) } :
                task \in { [id |-> VehicleId(n), origin |-> od[1], target |-> od[2],
                            weightType |-> "weight", type |-> vType] :
                           od \in TripsD, vType \in {"Vehicle", "HeavyVehicle"} } }

WalkResults(n) ==
    LET g == PreProcessing(WalkLoaded)
    IN  UNION { { ComputePathWorker(g, task, route) : route \in Routes(g, task) } :
                task \in { [id |-> PedestrianId(n), origin |-> od[1], target |-> od[2],
                            weightType |-> "length", type |-> "Pedestrian"] :
                           od \in TripsW } }

\* The result lists of n tasks, by task position.
RECURSIVE DriveLists(_)
DriveLists(n) ==
    IF n = 0 THEN {<<>>}
    ELSE { Append(l, r) : l \in DriveLists(n - 1), r \in DriveResults(n - 1) }

RECURSIVE WalkLists(_)
WalkLists(n) ==
    IF n = 0 THEN {<<>>}
    ELSE { Append(l, r) : l \in WalkLists(n - 1), r \in WalkResults(n - 1) }

\* The populations PopulationAgentsParallel can return.
Populations ==
    UNION { { BuildAgents(rd \o rw) : rd \in DriveLists(nv[1]), rw \in WalkLists(nv[2]) } :
            nv \in { c \in (0..MaxAgents) \X (0..MaxAgents) : c[1] + c[2] <= MaxAgents } }

InitPerm ==
    /\ pc = "perm"
    /\ gDrive = PreProcessing(SetWeightFromLength(DriveLoaded))
    /\ gWalk = PreProcessing(WalkLoaded)
    /\ barriersLeft = 0
    /\ nearest = {}
    /\ vehicles = 0 /\ pedestrian = 0
    /\ duration \in Durations
    /\ tasksD = <<>> /\ tasksW = <<>>
    /\ resD = <<>> /\ resW = <<>>
    /\ doneD = {} /\ doneW = {}
    /\ allAgents \in { p \in Populations : Len(p) \in 1..MaxAgents }
    /\ i = 0 /\ cursor = 0
    /\ edgeOccupancy = EmptyOccupancy /\ occDefined = FALSE
    /\ simulationData = <<>>
    /\ tickStart = <<>>
    /\ result = Absent
    /\ \E perm \in AgentOrders(Len(allAgents)) :
         mirror = [perm |-> perm,
                   agents |-> [k \in 1..Len(allAgents) |-> allAgents[perm[k]]],
                   occupancy |-> EmptyOccupancy,
                   data |-> <<>>]
    /\ probe = <<>>

\* The outcomes of random.random() < 0.7 by agent id for one tick; only an
\* active vehicle can get as far as the call.
DrawsById(agents) ==
    { d \in [{ agents[k].id : k \in 1..Len(agents) } -> BOOLEAN] :
        \A k \in 1..Len(agents) :
          ~(agents[k].active /\ IsVehicleKind(agents[k])) => ~d[agents[k].id] }

PermTick ==
    /\ pc = "perm" /\ i < duration
    /\ \E drawOf \in DrawsById(allAgents) :
         LET one == RunTick(allAgents, gDrive, edgeOccupancy, occDefined, i, duration, drawOf)
             two == RunTick(mirror.agents, gDrive, mirror.occupancy, occDefined, i,
                            duration, drawOf)
         IN  /\ allAgents' = one.agents
             /\ edgeOccupancy' = one.occupancy
             /\ simulationData' = simulationData \o one.records
             /\ mirror' = [mirror EXCEPT !.agents = two.agents,
                                         !.occupancy = two.occupancy,
                                         !.data = @ \o two.records]
    /\ occDefined' = TRUE
    /\ tickStart' = Append(tickStart, allAgents)
    /\ i' = i + 1
    /\ UNCHANGED <<probe, result, pc, graphVars, barriersLeft, nearest, paramVars, taskVars,
                   cursor>>

SpecPerm == InitPerm /\ [][PermTick]_vars

(***************************************************************************)
(* PreProcessing called on a graph of one edge: first an edge without a    *)
(* length attribute, then edges of length 0, 1, 2, ...                     *)
(***************************************************************************)
CapacityCall(len) ==
    [before |-> Edge(1, 2, 0, len), after |-> PreProcessing({Edge(1, 2, 0, len)})]

InitCapacity ==
    /\ pc = "capacity"
    /\ gDrive = SetWeightFromLength(DriveLoaded)
    /\ gWalk = WalkLoaded
    /\ barriersLeft = 0
    /\ nearest = {}
    /\ vehicles = 0 /\ pedestrian = 0 /\ duration = 0
    /\ tasksD = <<>> /\ tasksW = <<>>
    /\ resD = <<>> /\ resW = <<>>
    /\ doneD = {} /\ doneW = {}
    /\ allAgents = <<>>
    /\ i = 0 /\ cursor = 0
    /\ edgeOccupancy = EmptyOccupancy /\ occDefined = FALSE
    /\ simulationData = <<>>
    /\ tickStart = <<>>
    /\ result = Absent
    /\ mirror = Absent
    /\ probe = CapacityCall(Absent)

NextEdgeLength ==
    /\ pc = "capacity"
    /\ IF Has(probe.before.length)
         THEN /\ Get(probe.before.length) < MaxEdgeLength
              /\ probe' = CapacityCall(Some(Get(probe.before.length) + 1))
         ELSE probe' = CapacityCall(Some(0))
    /\ UNCHANGED <<pc, mirror, result, graphVars, barriersLeft, nearest, paramVars, taskVars,
                   tickVars>>

SpecCapacity == InitCapacity /\ [][NextEdgeLength]_vars

(***************************************************************************)
(* RunTicks called with a duration long enough for a whole red phase and   *)
(* for the stuck threshold, on a population routed on the networks without *)
(* barriers.                                                               *)
(***************************************************************************)
InitLong ==
    /\ pc = "ticks"
    /\ gDrive = PreProcessing(SetWeightFromLength(DriveLoaded))
    /\ gWalk = PreProcessing(WalkLoaded)
    /\ barriersLeft = 0
    /\ nearest = {}
    /\ vehicles = 0 /\ pedestrian = 0
    /\ duration = MaxLongDuration
    /\ tasksD = <<>> /\ tasksW = <<>>
    /\ resD = <<>> /\ resW = <<>>
    /\ doneD = {} /\ doneW = {}
    /\ allAgents \in { p \in Populations : Len(p) \in 1..MaxLongAgents }
    /\ i = 0 /\ cursor = 0
    /\ edgeOccupancy = EmptyOccupancy /\ occDefined = FALSE
    /\ simulationData = <<>>
    /\ tickStart = <<>>
    /\ result = Absent
    /\ mirror = Absent
    /\ probe = <<>>

NextLong ==
    \/ BeginTick
    \/ VisitAgent
    \/ ReturnRecords

SpecLong == InitLong /\ [][NextLong]_vars

(***************************************************************************)
(* IsGreenLight called directly, tick after tick, for a fixed node pair    *)
(* (u, v) and for the pair (u, v + 1) of the other phase class.            *)
(***************************************************************************)
LightCall(u, v, tick, history) ==
    [u |-> u, v |-> v, tick |-> tick,
     green |-> IsGreenLight(u, v, tick),
     other |-> IsGreenLight(u, v + 1, tick),
     history |-> Append(history, IsGreenLight(u, v, tick))]

InitLight ==
    /\ pc = "lights"
    /\ gDrive = SetWeightFromLength(DriveLoaded)
    /\ gWalk = WalkLoaded
    /\ barriersLeft = 0
    /\ nearest = {}
    /\ vehicles = 0 /\ pedestrian = 0 /\ duration = 0
    /\ tasksD = <<>> /\ tasksW = <<>>
    /\ resD = <<>> /\ resW = <<>>
    /\ doneD = {} /\ doneW = {}
    /\ allAgents = <<>>
    /\ i = 0 /\ cursor = 0
    /\ edgeOccupancy = EmptyOccupancy /\ occDefined = FALSE
    /\ simulationData = <<>>
    /\ tickStart = <<>>
    /\ result = Absent
    /\ mirror = Absent
    /\ \E u \in Nodes, v \in Nodes : probe = LightCall(u, v, 0, <<>>)

NextLightTick ==
    /\ pc = "lights" /\ probe.tick < MaxLightTick
    /\ probe' = LightCall(probe.u, probe.v, probe.tick + 1, probe.history)
    /\ UNCHANGED <<pc, mirror, result, graphVars, barriersLeft, nearest, paramVars, taskVars,
                   tickVars>>

SpecLight == InitLight /\ [][NextLightTick]_vars

(***************************************************************************)
(* Properties.                                                             *)
(***************************************************************************)
AgentIdx == 1..Len(allAgents)
RecordIdx == 1..Len(simulationData)
InRun == pc \in {"ticks", "done"}

\* Whether agent a is about to traverse the node pair (u, v).
NextHopIs(a, u, v) ==
    /\ a.active
    /\ a.currentStep < Len(a.path) - 1
    /\ a.path[a.currentStep + 1] = u
    /\ a.path[a.currentStep + 2] = v

CountAgents(P(_)) == Cardinality({ k \in AgentIdx : P(allAgents[k]) })

\* C1: no record of the output has a tick t with t % 5 # 0 (records are
\* produced on tick 0 and on every 5th tick only).
C1_RecordsOnlyEveryFifthTick ==
    \A k \in RecordIdx : simulationData[k].tick % 5 = 0

\* C2: once RunTicks has executed its ticks, no agent is still active.
C2_NoAgentActiveAfterRun ==
    pc = "done" => \A k \in AgentIdx : ~allAgents[k].active

\* C3: no two records share (tick, agent_id), the ticks of one agent's
\* records never decrease in output order, and the agent ids of the
\* population are pairwise distinct.
C3_RecordKeysUniqueAndOrdered ==
    /\ \A k, l \in RecordIdx :
         (k < l /\ simulationData[k].agent_id = simulationData[l].agent_id)
            => /\ simulationData[k].tick # simulationData[l].tick
               /\ simulationData[k].tick <= simulationData[l].tick
    /\ \A k, l \in AgentIdx : k # l => allAgents[k].id # allAgents[l].id

\* Two agents have records for the same tick and one agent has records for
\* two ticks.
C3_Witness ==
    /\ \E k, l \in RecordIdx :
         /\ simulationData[k].agent_id # simulationData[l].agent_id
         /\ simulationData[k].tick = simulationData[l].tick
    /\ \E k, l \in RecordIdx :
         /\ k < l
         /\ simulationData[k].agent_id = simulationData[l].agent_id
         /\ simulationData[k].tick < simulationData[l].tick

\* The population with its Pedestrian agents taken out.
RECURSIVE WithoutPedestrians(_)
WithoutPedestrians(agents) ==
    IF agents = <<>> THEN <<>>
    ELSE (IF Head(agents).type = "Pedestrian" THEN <<>> ELSE <<Head(agents)>>)
         \o WithoutPedestrians(Tail(agents))

\* C4: pedestrians contribute nothing to the occupancy snapshot: the load
\* GetEdgeOccupancy reports for every edge is the same with and without
\* the Pedestrian agents.
C4_PedestriansAddNoLoad ==
    InRun => \A uv \in Nodes \X Nodes :
               GetEdgeOccupancy(allAgents)[uv]
                 = GetEdgeOccupancy(WithoutPedestrians(allAgents))[uv]

\* C5: for each directed edge (u, v) GetEdgeOccupancy reports 3h + c, h the
\* active HeavyVehicles and c the active Vehicles whose next step is (u, v).
C5_LoadIsVehiclePCESum ==
    InRun => \A uv \in Nodes \X Nodes :
               GetEdgeOccupancy(allAgents)[uv]
                 = 3 * CountAgents(LAMBDA a : a.type = "HeavyVehicle"
                                              /\ NextHopIs(a, uv[1], uv[2]))
                   + CountAgents(LAMBDA a : a.type = "Vehicle"
                                            /\ NextHopIs(a, uv[1], uv[2]))

\* C5 on the edges no pedestrian is about to walk: there the load is 3h + c.
C5_LoadOnPedestrianFreeEdges ==
    InRun => \A uv \in Nodes \X Nodes :
               CountAgents(LAMBDA a : a.type = "Pedestrian"
                                      /\ NextHopIs(a, uv[1], uv[2])) = 0
               => GetEdgeOccupancy(allAgents)[uv]
                    = 3 * CountAgents(LAMBDA a : a.type = "HeavyVehicle"
                                                 /\ NextHopIs(a, uv[1], uv[2]))
                      + CountAgents(LAMBDA a : a.type = "Vehicle"
                                               /\ NextHopIs(a, uv[1], uv[2]))

\* C7: IsGreenLight has period 30; a pair with (u + v) even is green exactly
\* when tick % 30 is in [0, 15), a pair with (u + v) odd exactly when it is
\* in [15, 30); at every tick exactly one of the two classes is green.
C7_GreenLightPhases ==
    pc = "lights" =>
      /\ probe.green = (IF (probe.u + probe.v) % 2 = 0
                          THEN probe.tick % 30 \in 0..14
                          ELSE probe.tick % 30 \in 15..29)
      /\ probe.other # probe.green
      /\ probe.tick >= 30 => probe.green = probe.history[probe.tick - 30 + 1]

\* An odd pair is green in its second cycle.
C7_Witness ==
    /\ pc = "lights"
    /\ (probe.u + probe.v) % 2 = 1
    /\ probe.tick = 45
    /\ probe.green

\* C8: every agent has 0 <= currentStep < len(path), and pathCoords is as
\* long as path, so the lookup pathCoords[currentStep] is in range.
C8_CurrentStepInRange ==
    \A k \in AgentIdx :
      /\ allAgents[k].currentStep >= 0
      /\ allAgents[k].currentStep < Len(allAgents[k].path)
      /\ Len(allAgents[k].pathCoords) = Len(allAgents[k].path)

\* An agent has arrived at the last index of a path of three or more nodes
\* and a record has been written.
C8_Witness ==
    /\ simulationData # <<>>
    /\ \E k \in AgentIdx :
         /\ Len(allAgents[k].path) >= 3
         /\ allAgents[k].currentStep = Len(allAgents[k].path) - 1

\* C9: an inactive agent never becomes active again, none of its fields
\* changes any more, and no further record is appended for it.
C9_InactiveIsAbsorbing ==
    [][ \A k \in AgentIdx :
          ~allAgents[k].active =>
            /\ Len(allAgents') = Len(allAgents)
            /\ allAgents'[k] = allAgents[k]
            /\ \A r \in (Len(simulationData) + 1)..Len(simulationData') :
                 simulationData'[r].agent_id # allAgents[k].id ]_vars

\* An agent that has run and become inactive has been passed over in at
\* least one later tick.
C9_Witness ==
    \E k \in AgentIdx :
      /\ ~allAgents[k].active
      /\ allAgents[k].ticksAlive >= 1
      /\ i > allAgents[k].ticksAlive

\* The edges ApplyBarriers has blocked: each nearest edge and every edge of
\* its reverse direction.
IsBlocked(e) ==
    \E b \in nearest : \/ (e.u = b[1] /\ e.v = b[2] /\ e.k = b[3])
                       \/ (e.u = b[2] /\ e.v = b[1])

\* Whether the route p uses a blocked edge: it has a hop all of whose
\* parallel edges are blocked (otherwise the hop runs over, and is charged
\* for, an open carriageway).
CrossesBlocked(p) ==
    \E h \in 1..(Len(p) - 1) :
      \A e \in Parallel(gDrive, p[h], p[h + 1]) : IsBlocked(e)

\* C10: after ApplyBarriers no vehicle agent's path traverses a blocked
\* edge in either direction, and a task whose every route crosses a
\* blocked edge yields no agent.
C10_NoRouteCrossesBarrier ==
    InRun =>
      /\ \A k \in AgentIdx :
           IsVehicleKind(allAgents[k]) => ~CrossesBlocked(allAgents[k].path)
      /\ \A t \in 1..Len(tasksD) :
           (\A p \in SimplePaths(gDrive, tasksD[t].origin, tasksD[t].target) :
              CrossesBlocked(p)) => ~Has(resD[t])

\* With the edge nearest the barrier being (4, 3), a vehicle bound for 4 is
\* routed over the bypass 2 -> 4 instead of 3 -> 4.
C10_Witness ==
    /\ InRun
    /\ nearest = {<<4, 3, 0>>}
    /\ \E k \in AgentIdx : IsVehicleKind(allAgents[k]) /\ allAgents[k].path = <<1, 2, 4>>

\* Whether the task has no route (the destination is unreachable from the
\* origin) or its cheapest route costs 500000 or more.
NoViableRoute(g, task) ==
    \A p \in ShortestPaths(g, task.origin, task.target, task.weightType) :
      DijkstraCost(g, p, task.weightType) >= COST_CEILING

HasAgentOrRecord(id) ==
    \/ \E k \in AgentIdx : allAgents[k].id = id
    \/ \E r \in RecordIdx : simulationData[r].agent_id = id

\* C11: a routing task whose destination is unreachable from its origin, or
\* whose route costs 500000 or more, produces no Agent, and its agent id
\* appears in no record of the run.
C11_NoRouteNoAgentNoRecord ==
    InRun =>
      /\ \A t \in 1..Len(tasksD) :
           NoViableRoute(gDrive, tasksD[t]) => ~HasAgentOrRecord(tasksD[t].id)
      /\ \A t \in 1..Len(tasksW) :
           NoViableRoute(gWalk, tasksW[t]) => ~HasAgentOrRecord(tasksW[t].id)

\* A run has ended with records of another agent, one of the vehicle tasks
\* having a destination that cannot be reached from its origin.
C11_Witness ==
    /\ pc = "done"
    /\ simulationData # <<>>
    /\ \E t \in 1..Len(tasksD) :
         SimplePaths(gDrive, tasksD[t].origin, tasksD[t].target) = {}

\* C12: PopulationAgentsParallel creates an Agent only for a task whose
\* computed path has at least two nodes: no agent of the returned population
\* has a one-node path.
C12_AgentsHavePathOfTwoNodes ==
    InRun => \A k \in AgentIdx : Len(allAgents[k].path) >= 2

\* C12, amended: every agent of the returned population has a path of at
\* least one node; it is active when RunTicks starts exactly if its path has
\* at least two nodes, and an agent with a one-node path is never active.
C12_AgentsActiveIffPathOfTwoNodes ==
    InRun =>
      \A k \in AgentIdx :
        /\ Len(allAgents[k].path) >= 1
        /\ allAgents[k].active => Len(allAgents[k].path) >= 2
        /\ tickStart = <<>> => (allAgents[k].active <=> Len(allAgents[k].path) >= 2)

\* PopulationAgentsParallel has returned an agent with a one-node path next
\* to an active agent with a path of two nodes.
C12_Witness ==
    /\ pc = "ticks" /\ tickStart = <<>>
    /\ \E k, l \in AgentIdx :
         /\ Len(allAgents[k].path) = 1
         /\ Len(allAgents[l].path) = 2 /\ allAgents[l].active

\* What a successful run without agents returns.
EmptyRunResult == Returned(<<>>, Roads(SetWeightFromLength(DriveLoaded)))

\* C13: a failure of RunSimulation (the network fetch failed) is propagated
\* to the caller as a failure, and the caller can tell it from a successful
\* run that produced no records.
C13_FailureIsDistinguished ==
    pc = "failed" =>
      /\ Get(result).raised
      /\ ShowStatus(Get(result)) # ShowStatus(EmptyRunResult)

\* Whether the worker of the task runs into an exception (nx.path_weight
\* raising on the route found), as opposed to finding no route.
WorkerErrs(g, task) ==
    \E route \in Routes(g, task) :
      Has(route) /\ ~PathWeightDefined(g, Get(route), task.weightType)

\* C14: PopulationAgentsParallel never returns a population when a routing
\* worker has failed with an error: an errored task is a fault of the whole
\* batch, not an agent silently missing from the population.
C14_WorkerErrorIsBatchFault ==
    InRun =>
      /\ \A t \in 1..Len(tasksD) : ~WorkerErrs(gDrive, tasksD[t])
      /\ \A t \in 1..Len(tasksW) : ~WorkerErrs(gWalk, tasksW[t])

\* What the worker returns for the task when it is routed on its own.
RoutedAlone(g, task) == { ComputePathWorker(g, task, route) : route \in Routes(g, task) }

\* Whether the population holds exactly what the task yields when routed
\* alone: no agent if that is None, else one agent with that id, path,
\* coordinates and kind.
YieldsAsAlone(g, task) ==
    LET mine == { k \in AgentIdx : allAgents[k].id = task.id }
    IN  /\ Cardinality(mine) <= 1
        /\ mine = {} => Absent \in RoutedAlone(g, task)
        /\ \A k \in mine :
             \E r \in RoutedAlone(g, task) :
               /\ Has(r)
               /\ allAgents[k].path = Get(r).path
               /\ allAgents[k].pathCoords = Get(r).coords
               /\ allAgents[k].type = Get(r).type

\* C15: routing tasks are independent: whatever the order in which the
\* workers return and whichever tasks fail (no path or an exception), a
\* result not yet returned is untouched, a returned result is the one the
\* task gives when routed alone, a failed task yields no Agent and every
\* other task yields exactly the Agent it yields when routed alone.
C15_TasksRoutedIndependently ==
    /\ pc = "population" =>
         /\ \A k \in 1..Len(tasksD) :
              IF k \in doneD THEN resD[k] \in RoutedAlone(gDrive, tasksD[k])
              ELSE resD[k] = Absent
         /\ \A k \in 1..Len(tasksW) :
              IF k \in doneW THEN resW[k] \in RoutedAlone(gWalk, tasksW[k])
              ELSE resW[k] = Absent
    /\ InRun =>
         /\ \A k \in 1..Len(tasksD) : YieldsAsAlone(gDrive, tasksD[k])
         /\ \A k \in 1..Len(tasksW) : YieldsAsAlone(gWalk, tasksW[k])
         /\ \A k \in AgentIdx :
              \/ \E t \in 1..Len(tasksD) : tasksD[t].id = allAgents[k].id
              \/ \E t \in 1..Len(tasksW) : tasksW[t].id = allAgents[k].id

\* The worker of the first pedestrian task has run into an exception and
\* the task after it has its agent.
C15_Witness ==
    /\ InRun
    /\ Len(tasksW) = 2
    /\ WorkerErrs(gWalk, tasksW[1])
    /\ \E k \in AgentIdx : allAgents[k].id = tasksW[2].id /\ Len(allAgents[k].path) >= 2

\* C16: with vehicles = 0 and pedestrian = 0 no task is sampled, the
\* population is empty, no record is ever written whatever the duration,
\* and the run returns normally with empty records.
C16_EmptyInputEmptyOutput ==
    (vehicles = 0 /\ pedestrian = 0) =>
      /\ tasksD = <<>> /\ tasksW = <<>>
      /\ allAgents = <<>>
      /\ simulationData = <<>>
      /\ pc = "done" => /\ ~Get(result).raised
                        /\ Get(result).records = <<>>

\* A run of the longest duration over an empty population has returned.
C16_Witness ==
    /\ vehicles = 0 /\ pedestrian = 0
    /\ duration = MaxDuration
    /\ i = duration
    /\ pc = "done"
    /\ Has(result)

\* C17: the snapshot ValidateMovement consults in tick t is GetEdgeOccupancy
\* of the agents as they were at the head of tick 5 * floor(t / 5), before
\* any agent moved in that tick: computed afresh on every tick with
\* t % 5 = 0 (tick 0 included, so it is bound whenever it is read) and
\* reused unchanged on the other ticks.
C17_SnapshotOfLastFifthTick ==
    (pc = "ticks" /\ cursor > 0) =>
      /\ occDefined
      /\ Len(tickStart) = i + 1
      /\ edgeOccupancy = GetEdgeOccupancy(tickStart[5 * (i \div 5) + 1])

\* An agent is visited in tick 4 with the snapshot of tick 0, which differs
\* from the load at the head of tick 4.
C17_Witness ==
    /\ pc = "ticks" /\ cursor > 0
    /\ i = 4
    /\ allAgents[cursor].active
    /\ edgeOccupancy # GetEdgeOccupancy(tickStart[5])
    /\ edgeOccupancy # EmptyOccupancy

SetOf(seq) == { seq[k] : k \in 1..Len(seq) }

\* C18: RunTicks does not depend on the order of allAgents: run on any
\* permutation of the population with the same congestion outcome for each
\* (agent, tick), every agent ends each tick in the same state and the same
\* set of records has been produced.
C18_AgentOrderIrrelevant ==
    pc = "perm" =>
      /\ \A k \in 1..Len(mirror.agents) : mirror.agents[k] = allAgents[mirror.perm[k]]
      /\ SetOf(mirror.data) = SetOf(simulationData)
      /\ Len(mirror.data) = Len(simulationData)
      /\ mirror.occupancy = edgeOccupancy

\* Two agents in swapped order, both after the same over-loaded edge, one
\* of them blocked by the congestion draw and the other one not.
C18_Witness ==
    /\ pc = "perm"
    /\ Len(allAgents) >= 2
    /\ mirror.perm[1] # 1
    /\ \E r1, r2 \in SetOf(simulationData) :
         /\ r1.tick = 0 /\ r2.tick = 0
         /\ r1.status = "congested" /\ r2.status = "moving"
         /\ r1.agent_id # r2.agent_id

\* C19: PreProcessing gives every edge the capacity max(1, floor(length / 7)):
\* an integer >= 1, equal to 1 for an edge shorter than 7 or without a
\* length attribute, and else the c with 7 * c <= length < 7 * (c + 1).
C19_CapacityAtLeastOne ==
    pc = "capacity" =>
      /\ Cardinality(probe.after) = 1
      /\ \A e \in probe.after :
           /\ Has(e.capacity)
           /\ Get(e.capacity) \in Nat
           /\ Get(e.capacity) >= 1
           /\ e.length = probe.before.length
           /\ IF ~Has(e.length) \/ Get(e.length) < 7
                THEN Get(e.capacity) = 1
                ELSE /\ 7 * Get(e.capacity) <= Get(e.length)
                     /\ Get(e.length) < 7 * (Get(e.capacity) + 1)

\* PreProcessing has given an edge shorter than 7 its capacity.
C19_Witness ==
    /\ pc = "capacity"
    /\ Has(probe.before.length)
    /\ Get(probe.before.length) = 6
    /\ \E e \in probe.after : Has(e.capacity)

\* Whether hop h (0-based) of the path starts at a controlled intersection
\* (degree > 2) whose light for the hop is red in the tick.
HopIsRed(a, h, tick) ==
    /\ Degree(gDrive, a.path[h + 1]) > 2
    /\ ~IsGreenLight(a.path[h + 1], a.path[h + 2], tick)

\* C20: a Vehicle or HeavyVehicle never traverses an edge whose start node
\* is a controlled intersection showing red in that tick; this holds for
\* every path step taken in the tick, the second step of a Vehicle included.
C20_NoStepThroughRed ==
    [][ \A k \in AgentIdx :
          (pc = "ticks" /\ IsVehicleKind(allAgents[k])) =>
            \A h \in allAgents[k].currentStep .. (allAgents'[k].currentStep - 1) :
              ~HopIsRed(allAgents[k], h, i) ]_vars

\* C20 for the first step of a tick alone: the edge an agent leaves its
\* position by is never red.
C20_FirstStepObeysLights ==
    [][ \A k \in AgentIdx :
          (pc = "ticks" /\ IsVehicleKind(allAgents[k])
             /\ allAgents'[k].currentStep > allAgents[k].currentStep) =>
            ~HopIsRed(allAgents[k], allAgents[k].currentStep, i) ]_vars

\* Whether the step from a to b is a visit in which the agent passed the
\* budget check and was found eligible (its stuckTicks was not incremented).
VisitedEligible(a, b) ==
    /\ a.active
    /\ b.ticksAlive = a.ticksAlive + 1
    /\ ~BudgetExceeded(b, duration)
    /\ b.stuckTicks # a.stuckTicks + 1

\* C21: in one tick an eligible Vehicle advances two path steps, or one if
\* that one brings it to the end of its path; an eligible HeavyVehicle or
\* Pedestrian advances exactly one; no agent's currentStep ever decreases
\* or grows by more than 2 in a tick.
C21_StepsPerTick ==
    [][ pc = "ticks" =>
          \A k \in AgentIdx :
            LET a == allAgents[k]
                b == allAgents'[k]
                d == b.currentStep - a.currentStep
            IN  /\ d \in 0..2
                /\ k # cursor => d = 0
                /\ (k = cursor /\ VisitedEligible(a, b)) =>
                     d = (IF a.type = "Vehicle" /\ a.currentStep + 1 < Len(a.path) - 1
                            THEN 2 ELSE 1)
                /\ (k = cursor /\ ~VisitedEligible(a, b)) => d = 0 ]_vars

\* At the end of a tick a Vehicle is two path steps and a HeavyVehicle one
\* path step beyond where it was at the head of the tick, the HeavyVehicle
\* not yet at the end of its path.
C21_Witness ==
    /\ pc = "ticks" /\ cursor = 0 /\ i >= 1
    /\ \E k, l \in AgentIdx :
         /\ allAgents[k].type = "Vehicle"
         /\ allAgents[k].currentStep = tickStart[i][k].currentStep + 2
         /\ allAgents[l].type = "HeavyVehicle"
         /\ allAgents[l].currentStep = tickStart[i][l].currentStep + 1
         /\ allAgents[l].active

\* Whether the snapshot load of the node pair (u, v) is within the capacity
\* ValidateMovement looks up for it, the capacity of the edge with key 0.
LoadWithinCapacity(u, v) ==
    \A e \in gDrive :
      (e.u = u /\ e.v = v /\ e.k = 0) => edgeOccupancy[<<u, v>>] <= Get(e.capacity)

\* C22: a Vehicle or HeavyVehicle visited with a next edge (u, v) always
\* moves when the light does not hold it (degree(u) <= 2, or the light of
\* (u, v) is green) and the snapshot load of (u, v) is at most the capacity,
\* load equal to capacity included.
C22_EligibleWhenGreenAndWithinCapacity ==
    [][ (pc = "ticks" /\ cursor > 0) =>
          LET a == allAgents[cursor]
              b == allAgents'[cursor]
              u == a.path[a.currentStep + 1]
              v == a.path[a.currentStep + 2]
          IN  ( /\ a.active
                /\ IsVehicleKind(a)
                /\ a.ticksAlive + 1 <= duration /\ a.stuckTicks <= 15
                /\ a.currentStep < Len(a.path) - 1
                /\ (Degree(gDrive, u) <= 2 \/ IsGreenLight(u, v, i))
                /\ LoadWithinCapacity(u, v) )
              => (b.currentStep > a.currentStep /\ b.stuckTicks = 0) ]_vars

\* In tick 0, the red phase of (1, 2), a vehicle has left node 1 (degree 1)
\* over the edge (1, 2), whose snapshot load equalled its capacity.
C22_Witness ==
    /\ pc = "ticks" /\ cursor = 0 /\ i = 1
    /\ ~IsGreenLight(1, 2, 0)
    /\ Degree(gDrive, 1) <= 2
    /\ \E e \in gDrive : e.u = 1 /\ e.v = 2 /\ e.k = 0
                          /\ edgeOccupancy[<<1, 2>>] = Get(e.capacity)
    /\ \E k \in AgentIdx :
         /\ IsVehicleKind(allAgents[k])
         /\ NextHopIs(tickStart[1][k], 1, 2)
         /\ allAgents[k].currentStep > 0

\* Whether ValidateMovement can answer yes / no for the agent at the cursor
\* in the current tick (the agent taken after its ticksAlive increment).
CanBeEligible(a) ==
    \E draw \in BOOLEAN :
      ValidateMovement([a EXCEPT !.ticksAlive = @ + 1], gDrive, edgeOccupancy, i, draw)

CanBeIneligible(a) ==
    \E draw \in BOOLEAN :
      ~ValidateMovement([a EXCEPT !.ticksAlive = @ + 1], gDrive, edgeOccupancy, i, draw)

\* C23: stuckTicks counts consecutive blocked ticks: a visit in which the
\* agent is ineligible adds exactly 1 and leaves the agent where it is, a
\* visit in which it advances sets it to 0; an agent is deactivated for
\* being stuck exactly when it is visited with stuckTicks > 15, that is at
\* the first visit after 16 blocked ticks in a row, so stuckTicks never
\* exceeds 16.
C23_StuckTicksCountBlockedTicks ==
    [][ (pc = "ticks" /\ cursor > 0) =>
          LET a == allAgents[cursor]
              b == allAgents'[cursor]
              d == b.currentStep - a.currentStep
          IN  /\ b.stuckTicks <= 16
              /\ (a.active /\ a.stuckTicks > 15) =>
                   (~b.active /\ d = 0 /\ b.stuckTicks = a.stuckTicks)
              /\ (a.active /\ a.stuckTicks <= 15 /\ a.ticksAlive + 1 <= duration) =>
                   \/ /\ d = 0
                      /\ CanBeIneligible(a)
                      /\ b.stuckTicks = a.stuckTicks + 1
                      /\ b.active
                   \/ /\ d > 0
                      /\ CanBeEligible(a)
                      /\ b.stuckTicks = 0
                      /\ b.active \/ b.currentStep = Len(b.path) - 1
              /\ ~a.active => b = a ]_vars

\* An agent has been deactivated short of its destination after 16 blocked
\* ticks in a row.
C23_Witness ==
    \E k \in AgentIdx :
      /\ ~allAgents[k].active
      /\ allAgents[k].stuckTicks = 16
      /\ allAgents[k].ticksAlive = 17
      /\ allAgents[k].currentStep < Len(allAgents[k].path) - 1

\* C24: a Pedestrian is eligible on every tick it is active, whatever the
\* lights and the occupancy: each visit of an active pedestrian advances it
\* exactly one path step, its stuckTicks is always 0, it is deactivated
\* only by arriving, and every record it emits has status 'moving'.
C24_PedestrianAlwaysMoves ==
    [][ pc = "ticks" =>
          /\ \A k \in AgentIdx :
               LET a == allAgents[k]
                   b == allAgents'[k]
               IN  a.type = "Pedestrian" =>
                     /\ b.stuckTicks = 0
                     /\ (k = cursor /\ a.active) =>
                          /\ b.currentStep = a.currentStep + 1
                          /\ b.active \/ b.currentStep = Len(b.path) - 1
          /\ \A r \in 1..Len(simulationData') :
               simulationData'[r].type = "Pedestrian" =>
                 simulationData'[r].status = "moving" ]_vars

\* Two pedestrians have walked 1 -> 2 -> 3 in ticks 0 and 1, each with a
\* record for tick 0: the snapshot load of (1, 2) was above the capacity of
\* the drive edge (1, 2), and the light of (2, 3) was red in tick 1.
C24_Witness ==
    /\ pc = "ticks" /\ i = 2 /\ cursor = 0
    /\ Len(allAgents) = 2
    /\ \A k \in AgentIdx :
         /\ allAgents[k].type = "Pedestrian"
         /\ allAgents[k].path = <<1, 2, 3>>
         /\ allAgents[k].currentStep = 2
         /\ \E r \in RecordIdx : /\ simulationData[r].agent_id = allAgents[k].id
                                  /\ simulationData[r].tick = 0
    /\ ~LoadWithinCapacity(1, 2)
    /\ Degree(gDrive, 2) > 2 /\ ~IsGreenLight(2, 3, 1)

\* C25: an agent is inactive as soon as its currentStep is len(path) - 1,
\* it has no record for the tick of its arrival or for any later tick, and
\* no record reports an agent at its last path index.
C25_NoRecordAtDestination ==
    /\ \A k \in AgentIdx :
         LET a == allAgents[k]
         IN  a.currentStep = Len(a.path) - 1 =>
               /\ ~a.active
               /\ \A r \in RecordIdx :
                    simulationData[r].agent_id = a.id =>
                      simulationData[r].tick < a.ticksAlive - 1
    /\ \A r \in RecordIdx : \A k \in AgentIdx :
         simulationData[r].agent_id = allAgents[k].id =>
           <<simulationData[r].lat, simulationData[r].lon>>
             # allAgents[k].pathCoords[Len(allAgents[k].path)]

\* An agent with records of its way has arrived and a later tick has begun.
C25_Witness ==
    \E k \in AgentIdx :
      /\ Len(allAgents[k].path) >= 3
      /\ allAgents[k].currentStep = Len(allAgents[k].path) - 1
      /\ i > allAgents[k].ticksAlive
      /\ \E r \in RecordIdx : simulationData[r].agent_id = allAgents[k].id

\* The agent at position k as it was at the head of tick t and as it was
\* when tick t had visited it.
AtHeadOfTick(k, t) == tickStart[t + 1][k]
AfterTick(k, t) == IF Len(tickStart) >= t + 2 THEN tickStart[t + 2][k] ELSE allAgents[k]

\* C26: a record of agent a for tick t has status 'moving' exactly if a
\* advanced at least one path step in tick t and 'congested' exactly if a
\* was blocked in tick t (stuckTicks incremented, no step); its lat / lon
\* are pathCoords[currentStep] as of the end of that tick's movement.
C26_RecordStatusMatchesMovement ==
    \A r \in RecordIdx : \A k \in AgentIdx :
      simulationData[r].agent_id = allAgents[k].id =>
        LET rec == simulationData[r]
            before == AtHeadOfTick(k, rec.tick)
            after == AfterTick(k, rec.tick)
        IN  /\ rec.status \in {"moving", "congested"}
            /\ rec.status = "moving" <=> after.currentStep > before.currentStep
            /\ rec.status = "congested" <=>
                 (after.currentStep = before.currentStep
                    /\ after.stuckTicks = before.stuckTicks + 1)
            /\ <<rec.lat, rec.lon>> = after.pathCoords[after.currentStep + 1]
            /\ rec.type = after.type

\* One agent has a 'congested' record and, for a later tick, a 'moving' one.
C26_Witness ==
    \E r1, r2 \in RecordIdx :
      /\ simulationData[r1].agent_id = simulationData[r2].agent_id
      /\ simulationData[r1].tick < simulationData[r2].tick
      /\ simulationData[r1].status = "congested"
      /\ simulationData[r2].status = "moving"

\* Whether the population holds, for the task, exactly one agent, and that
\* agent has the one-node path, was never active or stepped, has no record
\* and adds no load to any node pair.
YieldsInertAgent(task) ==
    LET mine == { k \in AgentIdx : allAgents[k].id = task.id }
    IN  /\ Cardinality(mine) = 1
        /\ \A k \in mine :
             /\ allAgents[k].path = <<task.origin>>
             /\ ~allAgents[k].active
             /\ allAgents[k].currentStep = 0
             /\ allAgents[k].ticksAlive = 0
             /\ allAgents[k].stuckTicks = 0
             /\ \A r \in RecordIdx : simulationData[r].agent_id # task.id
             /\ \A uv \in Nodes \X Nodes : AgentLoad(allAgents[k], uv[1], uv[2]) = 0

\* C27: a task whose origin equals its destination yields an Agent with a
\* one-node path that is inactive from creation: it is never stepped, never
\* emits a record and adds no load to the occupancy.
C27_SameNodeTaskYieldsInertAgent ==
    InRun =>
      /\ \A t \in 1..Len(tasksD) :
           tasksD[t].origin = tasksD[t].target => YieldsInertAgent(tasksD[t])
      /\ \A t \in 1..Len(tasksW) :
           tasksW[t].origin = tasksW[t].target => YieldsInertAgent(tasksW[t])

\* A run over a vehicle task and a pedestrian task from a node to itself
\* has ended.
C27_Witness ==
    /\ pc = "done"
    /\ duration = MaxDuration
    /\ \E t \in 1..Len(tasksD) : tasksD[t].origin = tasksD[t].target
    /\ \E t \in 1..Len(tasksW) : tasksW[t].origin = tasksW[t].target


(***************************************************************************)
(* C28                                                                     *)
(***************************************************************************)
\* This step hands back results of pool `done` only for tasks not consumed
\* before, one task at a time.
ConsumedOnce(res, resNext, done, doneNext) ==
    /\ done \subseteq doneNext
    /\ Cardinality(doneNext \ done) <= 1
    /\ Len(resNext) = Len(res) =>
         \A k \in 1..Len(res) : res[k] # resNext[k] => k \notin done /\ k \in doneNext

\* Agent a was produced from task t.
ProducedFrom(a, t) ==
    /\ a.id = t.id /\ a.type = t.type
    /\ Len(a.path) >= 1
    /\ a.path[1] = t.origin /\ a.path[Len(a.path)] = t.target
    /\ Len(a.pathCoords) = Len(a.path)

PopulationOfTasks ==
    LET tasks == tasksD \o tasksW
    IN  /\ doneD = 1..Len(tasksD) /\ doneW = 1..Len(tasksW)
        /\ \A t \in 1..Len(tasks) :
             Cardinality({ k \in AgentIdx : allAgents[k].id = tasks[t].id }) <= 1
        /\ \A k \in AgentIdx : \E t \in 1..Len(tasks) : ProducedFrom(allAgents[k], tasks[t])
        /\ \A k, l \in AgentIdx : k # l => allAgents[k].id # allAgents[l].id
        /\ Len(allAgents) <= vehicles + pedestrian

\* C28: each routing task is consumed exactly once and yields at most one
\* Agent; an Agent carries its task's id and kind, its path runs from the
\* task's origin to its destination, pathCoords is as long as path, and the
\* returned population has pairwise-distinct ids and at most
\* vehicles + pedestrian agents.
C28_OneAgentPerTask ==
    [][ /\ ConsumedOnce(resD, resD', doneD, doneD')
        /\ ConsumedOnce(resW, resW', doneW, doneW')
        /\ InRun' => PopulationOfTasks' ]_vars

\* A vehicle task and a pedestrian task were routed and each gave an agent
\* with a path of several nodes.
C28_Witness ==
    /\ pc = "ticks" /\ tickStart = <<>>
    /\ vehicles = 1 /\ pedestrian = 1 /\ Len(allAgents) = 2
    /\ allAgents[1].id = tasksD[1].id /\ Len(allAgents[1].path) >= 3
    /\ allAgents[2].id = tasksW[1].id /\ Len(allAgents[2].path) >= 2


(***************************************************************************)
(* C29                                                                     *)
(***************************************************************************)
\* The drive and walk graphs as they would be at this point of the run had
\* no barrier been given.
DriveUnbarred ==
    IF pc = "barriers" THEN SetWeightFromLength(DriveLoaded)
    ELSE PreProcessing(SetWeightFromLength(DriveLoaded))
WalkUnbarred == IF pc = "barriers" THEN WalkLoaded ELSE PreProcessing(WalkLoaded)

WithoutWeight(g) == { [e EXCEPT !.weight = Absent] : e \in g }

\* Edge e is the nearest edge of an applied barrier or runs against one.
BarrierTouches(e) ==
    \/ <<e.u, e.v, e.k>> \in nearest
    \/ \E b \in nearest : b[1] = e.v /\ b[2] = e.u

\* C29: ApplyBarriers changes only the weight of the edge nearest each
\* barrier and of its reverse edges; the drive graph's nodes, edges, degrees,
\* lengths and derived capacities and the whole walk graph are as without
\* barriers, and with no barrier applied the drive graph is unchanged.
C29_BarriersChangeOnlyWeights ==
    /\ WithoutWeight(gDrive) = WithoutWeight(DriveUnbarred)
    /\ \A n \in Nodes : Degree(gDrive, n) = Degree(DriveUnbarred, n)
    /\ \A e \in gDrive :
         /\ EdgeCapacity(e) = EdgeCapacity(CHOOSE d \in DriveUnbarred :
                                             d.u = e.u /\ d.v = e.v /\ d.k = e.k)
         /\ IF BarrierTouches(e) THEN e.weight = Some(BARRIER_WEIGHT)
                                ELSE e \in DriveUnbarred
    /\ gWalk = WalkUnbarred
    /\ nearest = {} => gDrive = DriveUnbarred

\* A barrier was applied to edge 4 -> 3, which has a reverse edge: both now
\* carry the barrier weight.
C29_Witness ==
    /\ pc = "population"
    /\ nearest = {<<4, 3, 0>>}
    /\ \E e \in gDrive : e.u = 3 /\ e.v = 4 /\ e.weight = Some(BARRIER_WEIGHT)
    /\ \E e \in gDrive : e.u = 4 /\ e.v = 3 /\ e.weight = Some(BARRIER_WEIGHT)


(***************************************************************************)
(* C30: successRate of the report, over the records of a run.              *)
(***************************************************************************)
\* df['tick'].max() and df.groupby("agent_id")["tick"].max() for one agent.
tick_max(df) == CHOOSE t \in { df[r].tick : r \in 1..Len(df) } :
                  \A r \in 1..Len(df) : df[r].tick <= t
tick_max_for_agent(df, id) ==
    CHOOSE t \in { df[r].tick : r \in { q \in 1..Len(df) : df[q].agent_id = id } } :
      \A r \in 1..Len(df) : df[r].agent_id = id => df[r].tick <= t

\* The agents successRate counts as arrived: those of the records whose
\* last record is older than the last record of the run.
agentArrived(df) ==
    { id \in { df[r].agent_id : r \in 1..Len(df) } : tick_max_for_agent(df, id) < tick_max(df) }

\* The rate as the fraction num / den (a percentage), 0.0 for no records.
successRate(df) ==
    IF df = <<>> THEN [num |-> 0, den |-> 1]
    ELSE [num |-> Cardinality(agentArrived(df)) * 100,
          den |-> Cardinality({ df[r].agent_id : r \in 1..Len(df) })]

\* Agent k travelled to the last node of its path.
ReachedDestination(k) ==
    /\ Len(allAgents[k].path) >= 2
    /\ allAgents[k].currentStep = Len(allAgents[k].path) - 1

\* C30: over the records of a finished run, successRate counts an agent as
\* arrived if and only if the agent reached the last node of its path, and
\* the rate is the percentage of the recorded agents that did.
C30_SuccessRateCountsArrivals ==
    pc = "done" =>
      /\ \A k \in AgentIdx :
           Len(allAgents[k].path) >= 2 =>
             (allAgents[k].id \in agentArrived(simulationData) <=> ReachedDestination(k))
      /\ LET sr == successRate(simulationData)
             seen == { k \in AgentIdx : \E r \in RecordIdx :
                                          simulationData[r].agent_id = allAgents[k].id }
         IN  simulationData # <<>> =>
               sr.num * Cardinality(seen)
                 = 100 * Cardinality({ k \in seen : ReachedDestination(k) }) * sr.den

\* One direction of C30, for agents that appear in the records: an agent that
\* reached its destination is counted as arrived.
ArrivedAfterRecordsIsCounted ==
    pc = "done" =>
      \A k \in AgentIdx :
        (ReachedDestination(k) /\ \E r \in RecordIdx : simulationData[r].agent_id = allAgents[k].id)
          => allAgents[k].id \in agentArrived(simulationData)

\* The other direction of C30: an agent counted as arrived has reached its
\* destination (it has not when the stuck threshold ended its records while
\* another agent was still being recorded).
CountedHasArrived ==
    pc = "done" =>
      \A k \in AgentIdx :
        allAgents[k].id \in agentArrived(simulationData) => ReachedDestination(k)


(***************************************************************************)
(* C31                                                                     *)
(***************************************************************************)
\* The 'no next edge' test of ValidateMovement (lines 184-188) answers False
\* for agent a.
NoNextEdge(a) == IsVehicleKind(a) /\ a.currentStep >= Len(a.path) - 1

\* C31: every active agent has a next edge (currentStep < len(path) - 1) and
\* stands on path[currentStep], at tick boundaries and between visits alike;
\* so ValidateMovement never takes its 'no next edge' branch for the active
\* vehicle RunTicks is about to visit.
C31_ActiveAgentHasNextEdge ==
    InRun =>
      /\ \A k \in AgentIdx :
           allAgents[k].active =>
             /\ allAgents[k].currentStep < Len(allAgents[k].path) - 1
             /\ allAgents[k].currentNode = allAgents[k].path[allAgents[k].currentStep + 1]
      /\ (pc = "ticks" /\ cursor > 0 /\ allAgents[cursor].active)
           => ~NoNextEdge([allAgents[cursor] EXCEPT !.ticksAlive = @ + 1])

\* A tick boundary after the first tick with a vehicle that has advanced and
\* is still active, next to an agent that has arrived.
C31_Witness ==
    /\ pc = "ticks" /\ cursor = 0 /\ i >= 1
    /\ \E k, l \in AgentIdx :
         /\ IsVehicleKind(allAgents[k]) /\ allAgents[k].active
         /\ allAgents[k].currentStep >= 1
         /\ ~allAgents[l].active
         /\ allAgents[l].currentStep = Len(allAgents[l].path) - 1
         /\ allAgents[l].currentStep >= 1


(***************************************************************************)
(* C32                                                                     *)
(***************************************************************************)
\* The agent under the cursor is active: this step's visit increments its
\* ticksAlive and runs the budget check.
VisitsActive == pc = "ticks" /\ cursor > 0 /\ allAgents[cursor].active

\* C32: an agent still active in tick i has ticksAlive = i + 1 after that
\* tick's increment, which never exceeds duration; an agent that a visit
\* deactivates has reached the end of its path or has stuckTicks > 15, so the
\* tick budget (ticksAlive > duration) deactivates no agent.
C32_TickBudgetNeverFires ==
    [][ VisitsActive =>
          /\ allAgents'[cursor].ticksAlive = i + 1
          /\ allAgents'[cursor].ticksAlive <= duration
          /\ ~allAgents'[cursor].active =>
                \/ allAgents'[cursor].currentStep = Len(allAgents'[cursor].path) - 1
                \/ allAgents'[cursor].stuckTicks > STUCK_LIMIT
          /\ BudgetExceeded(allAgents'[cursor], duration)
                => allAgents'[cursor].stuckTicks > STUCK_LIMIT ]_vars

\* An agent went through the budget check of every tick of the longest run
\* and is still active: its ticksAlive equals duration.
C32_Witness ==
    /\ pc = "done" /\ duration = MaxDuration
    /\ \E k \in AgentIdx :
         allAgents[k].active /\ allAgents[k].ticksAlive = duration


(***************************************************************************)
(* C33                                                                     *)
(***************************************************************************)
\* The position of the agent with this id in allAgents.
IndexOfAgent(id) == CHOOSE k \in AgentIdx : allAgents[k].id = id

\* No visit so far was blocked by the capacity rule: every 'congested'
\* record was written for an agent held by a red light in that tick.
BlockedOnlyByRed ==
    \A r \in RecordIdx :
      simulationData[r].status = "congested" =>
        LET a == AtHeadOfTick(IndexOfAgent(simulationData[r].agent_id), simulationData[r].tick)
        IN  HopIsRed(a, a.currentStep, simulationData[r].tick)

\* Every snapshot of the run so far was within capacity on every edge.
SnapshotsWithinCapacity ==
    \A t \in 1..Len(tickStart) :
      (t - 1) % SNAPSHOT_PERIOD = 0 =>
        \A e \in gDrive :
          e.k = 0 => GetEdgeOccupancy(tickStart[t])[<<e.u, e.v>>] <= Get(e.capacity)

\* No agent has more than 15 stuck ticks and every agent that was
\* deactivated during the run stands on the last node of its path.
NoStuckDeactivation ==
    \A k \in AgentIdx :
      /\ allAgents[k].stuckTicks <= STUCK_LIMIT
      /\ (~allAgents[k].active /\ Len(allAgents[k].path) >= 2)
           => allAgents[k].currentStep = Len(allAgents[k].path) - 1

\* C33: as long as no vehicle has been blocked by the capacity rule (in
\* particular when every snapshot load was within capacity), stuckTicks never
\* exceeds 15 and no agent is deactivated by the stuck threshold.
C33_RedLightsNeverKill ==
    (InRun /\ (BlockedOnlyByRed \/ SnapshotsWithinCapacity)) => NoStuckDeactivation

\* A vehicle waited a whole red phase, 15 ticks in a row, moved in the tick
\* the light turned green and arrived.
C33_Witness ==
    /\ pc = "done" /\ BlockedOnlyByRed /\ SnapshotsWithinCapacity
    /\ \E k \in AgentIdx :
         /\ IsVehicleKind(allAgents[k])
         /\ allAgents[k].currentStep = Len(allAgents[k].path) - 1
         /\ allAgents[k].ticksAlive = LIGHT_HALF + 1
         /\ Cardinality({ r \in RecordIdx :
                            /\ simulationData[r].agent_id = allAgents[k].id
                            /\ simulationData[r].status = "congested" }) = LIGHT_HALF


(***************************************************************************)
(* C34                                                                     *)
(***************************************************************************)
\* The agent under the cursor is the only active agent.
OnlyActiveAgent ==
    /\ VisitsActive
    /\ \A l \in AgentIdx : l # cursor => ~allAgents[l].active

\* This step's visit was refused by the capacity rule: the agent has a next
\* edge and no red light, and yet it did not move.
BlockedByCapacity ==
    LET a == allAgents[cursor]
    IN  /\ IsVehicleKind(a)
        /\ ~NoNextEdge(a)
        /\ ~RedLight(a, gDrive, i)
        /\ OverCapacity(a, gDrive, edgeOccupancy)
        /\ allAgents'[cursor].stuckTicks = a.stuckTicks + 1
        /\ allAgents'[cursor].currentStep = a.currentStep

\* C34: the only active agent of the simulation is never blocked by the
\* capacity rule, be it a Vehicle or a HeavyVehicle.
C34_LoneAgentNeverOverCapacity ==
    [][ OnlyActiveAgent => ~BlockedByCapacity ]_vars

\* The part of C34 that concerns a Vehicle that is the only agent of the
\* population.
LoneVehicleNeverOverCapacity ==
    [][ (OnlyActiveAgent /\ Len(allAgents) = 1 /\ allAgents[cursor].type = "Vehicle")
          => ~BlockedByCapacity ]_vars

\* The part of C34 that concerns a HeavyVehicle that is the only agent of the
\* population.
LoneHeavyVehicleNeverOverCapacity ==
    [][ (OnlyActiveAgent /\ Len(allAgents) = 1 /\ allAgents[cursor].type = "HeavyVehicle")
          => ~BlockedByCapacity ]_vars

=============================================================================
